---- MODULE Spec2Model ----
(***************************************************************************)
(* Model of pytils.json_helpers: the process-wide type registry, the       *)
(* JSONSerializable / JSONEnum contracts, the encoder hook and the decoder *)
(* hook, exercised with the data types and enumerations that               *)
(* test/test_json_helpers.py declares.                                     *)
(*                                                                         *)
(* Python values are records tagged by "t".  Instances live in a heap and  *)
(* are referred to by address, so that aliasing is visible.  A Python dict *)
(* is its sequence of <<key, value>> pairs in insertion order.  JSON text  *)
(* is represented by its syntax tree (records tagged by "j"); an object    *)
(* node keeps its members in textual order and may repeat a key.           *)
(***************************************************************************)
EXTENDS Integers, Sequences, FiniteSets, TLC

VARIABLES
    type_map,      \* _type_map: identifier -> class
    members,       \* the enumeration members created so far, with their attributes
    heap,          \* the client's data-type instances, by address
    nconstructed,  \* constructor calls made by the client
    nmut,          \* changes made by the client to a mapping it got from to_dict
    io             \* the client's last call: its arguments and what it returned

vars == <<type_map, members, heap, nconstructed, nmut, io>>

\* Number of constructor calls the client makes.
MaxConstruct == 1
\* Number of changes the client makes to a mapping returned by to_dict.
MaxMut == 1

ReservedKey == "_cls_type_"
TestModule == "test_json_helpers"

----------------------------------------------------------------------------
(* Python values *)

Str(s) == [t |-> "str", s |-> s]
Num(n) == [t |-> "num", n |-> n]
List(items) == [t |-> "list", items |-> items]
Dict(pairs) == [t |-> "dict", pairs |-> pairs]
Inst(a) == [t |-> "inst", addr |-> a]
Member(cls, name) == [t |-> "enum", cls |-> cls, name |-> name]
\* the __dict__ object of the instance at address a (not a copy of it)
SelfDict(a) == [t |-> "selfdict", addr |-> a]
NoValue == [t |-> "raised"]

NoError == [exc |-> "none"]
KeyError(site, key) == [exc |-> "KeyError", site |-> site, key |-> key]
TypeError(site) == [exc |-> "TypeError", site |-> site]
\* The spec's names for the failures of decode.
UnknownTypeError(identifier) == KeyError("_type_map", Str(identifier))
UnknownMemberError(key) == KeyError("member", key)

(* dict operations on insertion-ordered pairs *)
Keys(pairs) == {pairs[i][1] : i \in 1..Len(pairs)}
HasKey(pairs, k) == k \in Keys(pairs)
Get(pairs, k) == pairs[CHOOSE i \in 1..Len(pairs) : pairs[i][1] = k][2]
Put(pairs, k, v) ==
    IF HasKey(pairs, k)
    THEN [i \in 1..Len(pairs) |-> IF pairs[i][1] = k THEN <<k, v>> ELSE pairs[i]]
    ELSE Append(pairs, <<k, v>>)
Del(pairs, k) == SelectSeq(pairs, LAMBDA p : p[1] # k)

----------------------------------------------------------------------------
(* The types of test/test_json_helpers.py.  A class is identified by its   *)
(* module, its qualified name and the ordinal of its definition: executing *)
(* the same class statement again creates a distinct class object with the *)
(* same module and qualified name.                                         *)

Class(q, n) == [module |-> TestModule, qualname |-> q, defn |-> n]

ExampleEnum == Class("ExampleEnum", 1)
NamedEnum == Class("NamedEnum", 1)
ExampleWithEnumExampleJSONSerializable == Class("ExampleWithEnumExampleJSONSerializable", 1)
ExampleJSONSerializable == Class("ExampleJSONSerializable", 1)
ExampleSubclassJSONSerializable == Class("ExampleSubclassJSONSerializable", 1)
ExampleMemberObjectJSONSerializable == Class("ExampleMemberObjectJSONSerializable", 1)
\* a second execution of the class statement of ExampleJSONSerializable
RedefinedExampleJSONSerializable == Class("ExampleJSONSerializable", 2)

EnumClasses == {ExampleEnum, NamedEnum}
DataClasses == {ExampleWithEnumExampleJSONSerializable, ExampleJSONSerializable,
                ExampleSubclassJSONSerializable, ExampleMemberObjectJSONSerializable}

IsEnumClass(cls) == cls.qualname \in {"ExampleEnum", "NamedEnum"}

\* declared members, in declaration order, with their values (auto() gives 1, 2)
Declared(cls) ==
    IF cls.qualname = "ExampleEnum"
    THEN << <<"ONE", Num(1)>>, <<"TWO", Num(2)>> >>
    ELSE << <<"ONE", Str("bar")>>, <<"TWO", Str("baz")>> >>

\* inspect.signature(cls).parameters
Parameters(cls) ==
    CASE cls.qualname = "ExampleWithEnumExampleJSONSerializable" -> {"arg"}
      [] cls.qualname = "ExampleJSONSerializable" -> {"string"}
      [] OTHER -> {}

\* f"{cls.__module__}#{cls.__qualname__}"
fqcn(cls) == cls.module \o "#" \o cls.qualname

----------------------------------------------------------------------------
(* The world a call runs in: the registry, the enumeration members and the *)
(* heap of instances.                                                      *)

World(tm, ms, h) == [type_map |-> tm, members |-> ms, heap |-> h]

EmptyMap == [k \in {} |-> k]

\* a registration in which the last class registered wins
json_register_class_replacing(w, cls) ==
    [w EXCEPT !.type_map =
        [k \in DOMAIN w.type_map \cup {fqcn(cls)} |->
            IF k = fqcn(cls) THEN cls ELSE w.type_map[k]]]

json_register_class(w, cls) ==
    IF fqcn(cls) \notin DOMAIN w.type_map
    THEN [w EXCEPT !.type_map =
            [k \in DOMAIN w.type_map \cup {fqcn(cls)} |->
                IF k = fqcn(cls) THEN cls ELSE w.type_map[k]]]
    ELSE w

SetAttr(w, a, k, v) == [w EXCEPT !.heap[a].dict = Put(@, k, v)]

\* object.__new__(cls): a fresh instance with an empty __dict__
New(w, cls) == [w EXCEPT !.heap = Append(@, [cls |-> cls, dict |-> <<>>])]

\* an __init__ that records the identifier but does not register the class
JSONSerializable_init_unregistered(w, a) ==
    SetAttr(w, a, ReservedKey, Str(fqcn(w.heap[a].cls)))

JSONSerializable_init(w, a) ==
    json_register_class(SetAttr(w, a, ReservedKey, Str(fqcn(w.heap[a].cls))),
                        w.heap[a].cls)

ExampleJSONSerializable_init(w, a, string) ==
    LET w1 == JSONSerializable_init(w, a)
        w2 == SetAttr(w1, a, "string", string)
        w3 == SetAttr(w2, a, "list", List(<<Str("hello"), Str("world")>>))
    IN  SetAttr(w3, a, "dict", Dict(<< <<"fruit", Str("banana")>> >>))

ExampleSubclassJSONSerializable_init(w, a) ==
    SetAttr(ExampleJSONSerializable_init(w, a, Str("bar")), a, "child", Str("child"))

ExampleWithEnumExampleJSONSerializable_init(w, a, arg) ==
    LET w1 == JSONSerializable_init(w, a)
        w2 == SetAttr(w1, a, "enum", Member(ExampleEnum, "TWO"))
    IN  SetAttr(w2, a, "other", Member(NamedEnum, "TWO"))

ExampleMemberObjectJSONSerializable_init(w, a) ==
    LET w1 == JSONSerializable_init(w, a)
        l  == Len(w1.heap) + 1
        w2 == ExampleJSONSerializable_init(New(w1, ExampleJSONSerializable), l, Str("foo"))
        w3 == SetAttr(w2, a, "left", Inst(l))
        r  == Len(w3.heap) + 1
        w4 == ExampleJSONSerializable_init(New(w3, ExampleJSONSerializable), r, Str("bar"))
    IN  SetAttr(w4, a, "right", Inst(r))

\* cls(**kwargs) for a data type; kwargs is a dict whose keys are parameters of cls
Construct(w, cls, kwargs) ==
    LET a  == Len(w.heap) + 1
        w0 == New(w, cls)
        arg(p) == IF HasKey(kwargs, p) THEN Get(kwargs, p) ELSE Str("bar")
        w1 == CASE cls.qualname = "ExampleJSONSerializable" ->
                     ExampleJSONSerializable_init(w0, a, arg("string"))
                [] cls.qualname = "ExampleSubclassJSONSerializable" ->
                     ExampleSubclassJSONSerializable_init(w0, a)
                [] cls.qualname = "ExampleWithEnumExampleJSONSerializable" ->
                     ExampleWithEnumExampleJSONSerializable_init(w0, a, arg("arg"))
                [] OTHER ->
                     ExampleMemberObjectJSONSerializable_init(w0, a)
    IN  [w |-> w1, v |-> Inst(a), err |-> NoError]

\* JSONEnum.__init__, run for the member `name` while the class body of cls executes
JSONEnum_init(w, cls, name, value) ==
    LET m  == Member(cls, name)
        w1 == [w EXCEPT !.members =
                 [x \in DOMAIN w.members \cup {m} |->
                    IF x = m THEN [value |-> value, cls_type |-> fqcn(cls)]
                    ELSE w.members[x]]]
    IN  json_register_class(w1, cls)

RECURSIVE DefineMembers(_, _, _)
DefineMembers(w, cls, i) ==
    IF i > Len(Declared(cls)) THEN w
    ELSE DefineMembers(JSONEnum_init(w, cls, Declared(cls)[i][1], Declared(cls)[i][2]),
                       cls, i + 1)

----------------------------------------------------------------------------
(* Encoding *)

\* a to_dict that returns dict(self.__dict__)
JSONSerializable_to_dict_copy(w, a) == Dict(w.heap[a].dict)

\* JSONSerializable.to_dict: `return self.__dict__`
JSONSerializable_to_dict(w, a) == SelfDict(a)

\* JSONEnum.to_dict: a new dict literal
JSONEnum_to_dict(w, m) ==
    Dict(<< <<ReservedKey, Str(w.members[m].cls_type)>>, <<"name", Str(m.name)>> >>)

to_dict(w, o) ==
    IF o.t = "inst" THEN JSONSerializable_to_dict(w, o.addr) ELSE JSONEnum_to_dict(w, o)

\* DefaultJSONEncoder.default: called for a value the JSON library cannot flatten
DefaultJSONEncoder_default(w, o) ==
    IF o.t \in {"inst", "enum"} THEN to_dict(w, o) ELSE NoValue

JString(s) == [j |-> "string", s |-> s]
JNumber(n) == [j |-> "number", n |-> n]
JArray(items) == [j |-> "array", items |-> items]
JObject(pairs) == [j |-> "object", pairs |-> pairs]

\* the pairs of a mapping value, whether a dict of its own or an instance's __dict__
PairsOf(w, d) == IF d.t = "selfdict" THEN w.heap[d.addr].dict ELSE d.pairs

\* json.dumps(obj, cls=DefaultJSONEncoder)
RECURSIVE dumps(_, _)
dumps(w, v) ==
    CASE v.t = "str" -> JString(v.s)
      [] v.t = "num" -> JNumber(v.n)
      [] v.t = "list" -> JArray([i \in 1..Len(v.items) |-> dumps(w, v.items[i])])
      [] v.t \in {"dict", "selfdict"} ->
            LET ps == PairsOf(w, v)
            IN  JObject([i \in 1..Len(ps) |-> <<ps[i][1], dumps(w, ps[i][2])>>])
      [] OTHER -> dumps(w, DefaultJSONEncoder_default(w, v))

default_json_dumps(w, obj) == dumps(w, obj)

----------------------------------------------------------------------------
(* Decoding *)

Outcome(w, v, err) == [w |-> w, v |-> v, err |-> err]

\* a from_dict that calls cls() without the mapping's entries
JSONSerializable_from_dict_unfiltered(cls, obj, w) == Construct(w, cls, <<>>)

RECURSIVE SetAttrs(_, _, _, _)
SetAttrs(w, a, pairs, i) ==
    IF i > Len(pairs) THEN w
    ELSE SetAttrs(SetAttr(w, a, pairs[i][1], pairs[i][2]), a, pairs, i + 1)

\* a from_dict that also sets every entry of the mapping on the new instance
JSONSerializable_from_dict_restoring(cls, obj, w) ==
    LET r == Construct(w, cls, SelectSeq(obj, LAMBDA p : p[1] \in Parameters(cls)))
    IN  [r EXCEPT !.w = SetAttrs(r.w, r.v.addr, obj, 1)]

\* JSONSerializable.from_dict: cls(**{k: v for k, v in obj.items() if k in sig.parameters})
JSONSerializable_from_dict(cls, obj, w) ==
    Construct(w, cls, SelectSeq(obj, LAMBDA p : p[1] \in Parameters(cls)))

\* a from_dict that ignores the name
JSONEnum_from_dict_first(cls, obj, w) ==
    Outcome(w, Member(cls, Declared(cls)[1][1]), NoError)

\* JSONEnum.from_dict: cls[obj['name']].  A list or a dict is unhashable and the
\* subscript raises TypeError; any other name that is not the name of a member
\* (a number, an enumeration member, an instance) raises KeyError.
JSONEnum_from_dict(cls, obj, w) ==
    IF ~HasKey(obj, "name")
    THEN Outcome(w, NoValue, KeyError("obj", Str("name")))
    ELSE LET name == Get(obj, "name")
         IN  IF name.t \in {"list", "dict", "selfdict"}
             THEN Outcome(w, NoValue, TypeError("member"))
             ELSE IF name.t = "str" /\ Member(cls, name.s) \in DOMAIN w.members
             THEN Outcome(w, Member(cls, name.s), NoError)
             ELSE Outcome(w, NoValue, UnknownMemberError(name))

from_dict(cls, obj, w) ==
    IF IsEnumClass(cls) THEN JSONEnum_from_dict(cls, obj, w)
    ELSE JSONSerializable_from_dict(cls, obj, w)

\* a hook that never dispatches
as_json_serializable_raw(o, w) == Outcome(w, Dict(o), NoError)

\* a hook that passes a mapping with an unregistered identifier through
as_json_serializable_lenient(o, w) ==
    IF HasKey(o, ReservedKey) /\ Get(o, ReservedKey).t = "str"
                              /\ Get(o, ReservedKey).s \in DOMAIN w.type_map
    THEN from_dict(w.type_map[Get(o, ReservedKey).s], o, w)
    ELSE Outcome(w, Dict(o), NoError)

\* a hook without the isinstance(cls_type, str) test
as_json_serializable_any_tag(o, w) ==
    IF HasKey(o, ReservedKey)
    THEN LET cls_type == Get(o, ReservedKey)
         IN  IF cls_type.t = "str" /\ cls_type.s \in DOMAIN w.type_map
             THEN from_dict(w.type_map[cls_type.s], o, w)
             ELSE Outcome(w, NoValue, KeyError("_type_map", cls_type))
    ELSE Outcome(w, Dict(o), NoError)

\* DefaultJSONDecoder.as_json_serializable, the object_hook
as_json_serializable(o, w) ==
    IF HasKey(o, ReservedKey) /\ Get(o, ReservedKey).t = "str"
    THEN LET cls_type == Get(o, ReservedKey).s
         IN  IF cls_type \in DOMAIN w.type_map
             THEN from_dict(w.type_map[cls_type], o, w)
             ELSE Outcome(w, NoValue, UnknownTypeError(cls_type))
    ELSE Outcome(w, Dict(o), NoError)

\* whether the hook, applied to o in w, reaches the call of from_dict
CallsFromDict(o, w) ==
    /\ HasKey(o, ReservedKey)
    /\ Get(o, ReservedKey).t = "str"
    /\ Get(o, ReservedKey).s \in DOMAIN w.type_map

\* The state of one parse: the world, the log of the hook's invocations, the
\* value built so far and the error raised, if any.
Parsed(w, log, v, err) == [w |-> w, log |-> log, v |-> v, err |-> err]

HookEntry(path, o, w, out) ==
    [path |-> path, o |-> o, called |-> CallsFromDict(o, w),
     registered |-> DOMAIN w.type_map, v |-> out.v, err |-> out.err]

\* the hook applied to the mapping built from an object node at `path`
Hooked(path, o, w, log) ==
    LET out == as_json_serializable(o, w)
    IN  Parsed(out.w, Append(log, HookEntry(path, o, w, out)), out.v, out.err)

\* the value of a node when no hook is applied
RECURSIVE raw_value(_)
raw_value(doc) ==
    CASE doc.j = "string" -> Str(doc.s)
      [] doc.j = "number" -> Num(doc.n)
      [] doc.j = "array" -> List([i \in 1..Len(doc.items) |-> raw_value(doc.items[i])])
      [] OTHER -> Dict([i \in 1..Len(doc.pairs) |->
                          <<doc.pairs[i][1], raw_value(doc.pairs[i][2])>>])

RECURSIVE parse(_, _, _, _), parse_items(_, _, _, _), parse_pairs(_, _, _, _)

\* the items of an array node from index i on; acc.v is the list built so far
parse_items(items, i, path, acc) ==
    IF acc.err # NoError \/ i > Len(items) THEN acc
    ELSE LET r == parse(items[i], Append(path, i), acc.w, acc.log)
         IN  parse_items(items, i + 1, path,
                 Parsed(r.w, r.log,
                        IF r.err = NoError THEN Append(acc.v, r.v) ELSE acc.v, r.err))

\* the members of an object node from index i on; acc.v is the dict built so far
parse_pairs(pairs, i, path, acc) ==
    IF acc.err # NoError \/ i > Len(pairs) THEN acc
    ELSE LET r == parse(pairs[i][2], Append(path, i), acc.w, acc.log)
         IN  parse_pairs(pairs, i + 1, path,
                 Parsed(r.w, r.log,
                        IF r.err = NoError THEN Put(acc.v, pairs[i][1], r.v) ELSE acc.v,
                        r.err))

\* a parser that applies the hook to a mapping before it parses its members
parse_object_top_down(doc, path, w, log) ==
    LET o == [i \in 1..Len(doc.pairs) |-> <<doc.pairs[i][1], raw_value(doc.pairs[i][2])>>]
        h == Hooked(path, o, w, log)
    IN  IF h.err # NoError THEN h
        ELSE LET ps == parse_pairs(doc.pairs, 1, path, Parsed(h.w, h.log, <<>>, NoError))
             IN  Parsed(ps.w, ps.log, IF ps.err = NoError THEN h.v ELSE NoValue, ps.err)

\* an object node: its members are parsed first, then the hook is applied
parse_object(doc, path, w, log) ==
    LET ps == parse_pairs(doc.pairs, 1, path, Parsed(w, log, <<>>, NoError))
    IN  IF ps.err # NoError THEN Parsed(ps.w, ps.log, NoValue, ps.err)
        ELSE Hooked(path, ps.v, ps.w, ps.log)

\* json.loads with object_hook: one node of the text
parse(doc, path, w, log) ==
    CASE doc.j = "string" -> Parsed(w, log, Str(doc.s), NoError)
      [] doc.j = "number" -> Parsed(w, log, Num(doc.n), NoError)
      [] doc.j = "array" ->
            LET r == parse_items(doc.items, 1, path, Parsed(w, log, <<>>, NoError))
            IN  IF r.err # NoError THEN Parsed(r.w, r.log, NoValue, r.err)
                ELSE Parsed(r.w, r.log, List(r.v), NoError)
      [] OTHER -> parse_object(doc, path, w, log)

\* default_json_loads(json_string)
default_json_loads(w, json_string) == parse(json_string, <<>>, w, <<>>)

----------------------------------------------------------------------------
(* Payloads that no encode of this process produced *)

Tagged(identifier, pairs) == JObject(<< <<ReservedKey, JString(identifier)>> >> \o pairs)

UnknownIdentifier == "elsewhere#Missing"

PayloadUnknownTag == Tagged(UnknownIdentifier, <<>>)
PayloadNestedUnknownTag == JObject(<< <<"outer", Tagged(UnknownIdentifier, <<>>)>> >>)
PayloadNumberTag == JObject(<< <<ReservedKey, JNumber(5)>>, <<"a", JString("x")>> >>)
PayloadUntagged == JObject(<< <<"a", JString("x")>>, <<"b", JArray(<<JNumber(1)>>)>> >>)
PayloadUnknownMember == Tagged(fqcn(ExampleEnum), << <<"name", JString("THREE")>> >>)
PayloadMemberAsName ==
    Tagged(fqcn(ExampleEnum),
           << <<"name", Tagged(fqcn(ExampleEnum), << <<"name", JString("ONE")>> >>)>> >>)
PayloadUnhashableNameThenUnknownTag ==
    JArray(<< Tagged(fqcn(ExampleEnum), << <<"name", JArray(<<>>)>> >>),
              Tagged(UnknownIdentifier, <<>>) >>)
PayloadEnumWithoutName == Tagged(fqcn(ExampleEnum), <<>>)
PayloadSubclassOtherFields ==
    Tagged(fqcn(ExampleSubclassJSONSerializable),
           << <<"string", JString("zap")>>, <<"child", JString("other")>> >>)
PayloadNumberTagInside ==
    Tagged(fqcn(ExampleJSONSerializable),
           << <<"string", JString("Hello")>>,
              <<"extra", JObject(<< <<ReservedKey, JNumber(5)>> >>)>> >>)
PayloadMemberThenData ==
    JArray(<< Tagged(fqcn(NamedEnum), << <<"name", JString("ONE")>> >>),
              Tagged(fqcn(ExampleMemberObjectJSONSerializable), <<>>),
              Tagged(fqcn(ExampleJSONSerializable), << <<"string", JString("Hello")>> >>) >>)

CraftedPayloads ==
    {PayloadUnknownTag, PayloadNestedUnknownTag, PayloadNumberTag, PayloadUntagged,
     PayloadUnknownMember, PayloadMemberAsName, PayloadUnhashableNameThenUnknownTag,
     PayloadEnumWithoutName,
     PayloadSubclassOtherFields, PayloadNumberTagInside, PayloadMemberThenData}

----------------------------------------------------------------------------
(* State *)

W == World(type_map, members, heap)

Init ==
    /\ type_map = EmptyMap
    /\ members = EmptyMap
    /\ heap = <<>>
    /\ nconstructed = 0
    /\ nmut = 0
    /\ io = [op |-> "none"]

Defined(cls) == \E m \in DOMAIN members : m.cls = cls
\* the module that declares the types has been imported
Imported == \A cls \in EnumClasses : Defined(cls)

\* values the client passes to a constructor parameter annotated `str`
ParamValues == {Str("Hello")}
Kwargs(cls) ==
    {<<>>} \cup {<< <<p, v>> >> : p \in Parameters(cls), v \in ParamValues}

\* the values the client can name: its instances and the enumeration members
Serializables == {Inst(a) : a \in 1..Len(heap)} \cup DOMAIN members

\* the class statement of an enumeration executes (in source order)
DefineEnum(cls) ==
    /\ ~Defined(cls)
    /\ cls = NamedEnum => Defined(ExampleEnum)
    /\ LET w1 == DefineMembers(W, cls, 1)
       IN  /\ type_map' = w1.type_map
           /\ members' = w1.members
    /\ io' = [op |-> "define", cls |-> cls]
    /\ UNCHANGED <<heap, nconstructed, nmut>>

\* the client calls cls(**kwargs)
ConstructInstance(cls, kwargs) ==
    /\ Imported
    /\ nconstructed < MaxConstruct
    /\ LET r == Construct(W, cls, kwargs)
       IN  /\ type_map' = r.w.type_map
           /\ heap' = r.w.heap
           /\ io' = [op |-> "construct", cls |-> cls, kwargs |-> kwargs, v |-> r.v]
    /\ nconstructed' = nconstructed + 1
    /\ UNCHANGED <<members, nmut>>

\* the classes the client registers before it has constructed an instance
ExplicitlyRegistered == {ExampleJSONSerializable, ExampleSubclassJSONSerializable}

\* the client calls json_register_class(cls)
RegisterClass(cls) ==
    /\ Imported
    /\ type_map' = json_register_class(W, cls).type_map
    /\ io' = [op |-> "register", cls |-> cls, before |-> type_map]
    /\ UNCHANGED <<members, heap, nconstructed, nmut>>

\* the client calls o.to_dict() and keeps the mapping it returns
ToDict(o) ==
    /\ io' = [op |-> "to_dict", o |-> o, ret |-> to_dict(W, o),
              returned |-> PairsOf(W, to_dict(W, o)), changed |-> FALSE]
    /\ UNCHANGED <<type_map, members, heap, nconstructed, nmut>>

\* the keys the client changes: two data fields and the reserved key, which the
\* mapping to_dict returns holds like any other field
MutableKeys == {"string", "child", ReservedKey}

\* the pairs of a mapping after `d[k] = v` or `del d[k]`
Changed(pairs, change) ==
    IF change.del THEN Del(pairs, change.k) ELSE Put(pairs, change.k, change.v)

\* the client changes the mapping it keeps
ChangeHeld(change) ==
    /\ io.op = "to_dict"
    /\ nmut < MaxMut
    /\ nmut' = nmut + 1
    /\ IF io.ret.t = "selfdict"
       THEN /\ heap' = [heap EXCEPT ![io.ret.addr].dict = Changed(@, change)]
            /\ io' = [io EXCEPT !.changed = TRUE]
       ELSE /\ io' = [io EXCEPT !.ret = Dict(Changed(@.pairs, change)), !.changed = TRUE]
            /\ UNCHANGED heap
    /\ UNCHANGED <<type_map, members, nconstructed>>

\* held[k] = v
SetItem(k, v) == ChangeHeld([del |-> FALSE, k |-> k, v |-> v])

\* del held[k]
DelItem(k) ==
    /\ io.op = "to_dict"
    /\ HasKey(PairsOf(W, io.ret), k)
    /\ ChangeHeld([del |-> TRUE, k |-> k, v |-> NoValue])

\* the client calls default_json_dumps(o)
Dumps(o) ==
    /\ io' = [op |-> "dumps", src |-> o, text |-> default_json_dumps(W, o)]
    /\ UNCHANGED <<type_map, members, heap, nconstructed, nmut>>

\* the client calls default_json_loads(payload); src is the value the payload
\* was encoded from, when the payload is the text of the preceding dumps
LoadsFrom(payload, src) ==
    /\ Imported
    /\ LET r == default_json_loads(W, payload)
       IN  /\ io' = [op |-> "loads", payload |-> payload, src |-> src, w |-> r.w,
                     log |-> r.log, v |-> r.v, err |-> r.err]
           /\ type_map' = r.w.type_map
    /\ UNCHANGED <<members, heap, nconstructed, nmut>>

Loads(payload) == LoadsFrom(payload, NoValue)

RoundTrip == io.op = "dumps" /\ LoadsFrom(io.text, io.src)

Next ==
    \/ \E cls \in EnumClasses : DefineEnum(cls)
    \/ \E cls \in DataClasses : \E kwargs \in Kwargs(cls) : ConstructInstance(cls, kwargs)
    \/ \E cls \in ExplicitlyRegistered : RegisterClass(cls)
    \/ \E o \in Serializables : ToDict(o)
    \/ \E k \in MutableKeys : SetItem(k, Str("zap"))
    \/ \E k \in MutableKeys : DelItem(k)
    \/ \E o \in Serializables : Dumps(o)
    \/ \E payload \in CraftedPayloads : Loads(payload)
    \/ RoundTrip

Spec == Init /\ [][Next]_vars

\* The same process when the class statement of ExampleJSONSerializable is
\* executed a second time: two classes then share one identifier.
NextRedefined ==
    \/ Next
    \/ RegisterClass(RedefinedExampleJSONSerializable)
    \/ ConstructInstance(RedefinedExampleJSONSerializable, <<>>)

SpecRedefined == Init /\ [][NextRedefined]_vars

----------------------------------------------------------------------------
(* Vocabulary of the properties *)

\* equality of contents: instances by class and fields, dicts whatever their order
RECURSIVE DeepEq(_, _, _, _)
DeepEq(v1, h1, v2, h2) ==
    IF v1.t # v2.t THEN FALSE
    ELSE CASE v1.t = "inst" ->
                /\ h1[v1.addr].cls = h2[v2.addr].cls
                /\ DeepEq(Dict(h1[v1.addr].dict), h1, Dict(h2[v2.addr].dict), h2)
           [] v1.t = "list" ->
                /\ Len(v1.items) = Len(v2.items)
                /\ \A i \in 1..Len(v1.items) : DeepEq(v1.items[i], h1, v2.items[i], h2)
           [] v1.t = "dict" ->
                /\ Keys(v1.pairs) = Keys(v2.pairs)
                /\ \A k \in Keys(v1.pairs) :
                      DeepEq(Get(v1.pairs, k), h1, Get(v2.pairs, k), h2)
           [] OTHER -> v1 = v2

\* the instance at address a of heap h holds the identifier of its own class
\* under the reserved key, and the registry has an entry for that identifier
CarriesOwnTag(h, a) ==
    /\ HasKey(h[a].dict, ReservedKey)
    /\ Get(h[a].dict, ReservedKey) = Str(fqcn(h[a].cls))
    /\ fqcn(h[a].cls) \in DOMAIN type_map

\* the error of a failed lookup in the registry, whatever the key looked up
IsUnknownTypeError(err) == err.exc = "KeyError" /\ err.site = "_type_map"

\* the last call decoded the text that the call before it encoded from io.src
RoundTripped == io.op = "loads" /\ io.src # NoValue

Decoded(cls) ==
    /\ io.err = NoError
    /\ io.v.t = "inst"
    /\ io.w.heap[io.v.addr].cls = cls

\* the strings that occur as values of a constructor parameter
CtorValues == {Str("bar"), Str("Hello"), Str("zap")}
CtorKwargs(cls) ==
    {<<>>} \cup {<< <<p, v>> >> : p \in Parameters(cls), v \in CtorValues}

\* the instance at address a has the fields its constructor builds from kwargs
BuiltBy(a, kwargs) ==
    LET r == Construct(W, heap[a].cls, kwargs)
    IN  DeepEq(Dict(heap[a].dict), heap, Dict(r.w.heap[r.v.addr].dict), r.w.heap)

BuiltFromParameters(a) == \E kwargs \in CtorKwargs(heap[a].cls) : BuiltBy(a, kwargs)

IsProperPrefix(p, q) == Len(p) < Len(q) /\ SubSeq(q, 1, Len(p)) = p

\* the paths of the object nodes of a text
RECURSIVE ObjectPaths(_, _)
ObjectPaths(doc, path) ==
    CASE doc.j = "array" ->
            UNION {ObjectPaths(doc.items[i], Append(path, i)) : i \in 1..Len(doc.items)}
      [] doc.j = "object" ->
            {path} \cup
            UNION {ObjectPaths(doc.pairs[i][2], Append(path, i)) : i \in 1..Len(doc.pairs)}
      [] OTHER -> {}

\* the value the parsed mapping of an object node holds under key k (the last one)
LastOf(pairs, k) ==
    pairs[CHOOSE i \in 1..Len(pairs) :
            pairs[i][1] = k /\ \A n \in (i + 1)..Len(pairs) : pairs[n][1] # k][2]

\* the type identifiers the mappings of a text hold under the reserved key
RECURSIVE IdentifiersIn(_)
IdentifiersIn(doc) ==
    CASE doc.j = "array" -> UNION {IdentifiersIn(doc.items[i]) : i \in 1..Len(doc.items)}
      [] doc.j = "object" ->
            (IF /\ \E i \in 1..Len(doc.pairs) : doc.pairs[i][1] = ReservedKey
                /\ LastOf(doc.pairs, ReservedKey).j = "string"
             THEN {LastOf(doc.pairs, ReservedKey).s} ELSE {})
            \cup UNION {IdentifiersIn(doc.pairs[i][2]) : i \in 1..Len(doc.pairs)}
      [] OTHER -> {}

\* the identifiers of the decoded payload that no call ever registered
NeverRegistered ==
    IF io.op = "loads" THEN IdentifiersIn(io.payload) \ DOMAIN io.w.type_map ELSE {}

LogEntries == IF io.op = "loads" THEN {io.log[i] : i \in 1..Len(io.log)} ELSE {}

\* a mapping that carries a type identifier under the reserved key
IsTagged(o) == HasKey(o, ReservedKey) /\ Get(o, ReservedKey).t = "str"

\* a value that holds a mapping still carrying a type identifier
RECURSIVE HoldsRawTagged(_)
HoldsRawTagged(v) ==
    CASE v.t = "list" -> \E i \in 1..Len(v.items) : HoldsRawTagged(v.items[i])
      [] v.t = "dict" ->
            \/ IsTagged(v.pairs)
            \/ \E i \in 1..Len(v.pairs) : HoldsRawTagged(v.pairs[i][2])
      [] OTHER -> FALSE

----------------------------------------------------------------------------
(* Properties *)

\* C1: round-trip identity.  When a data-type instance whose fields are what
\* its constructor builds from some parameter values is encoded and the text
\* is decoded, the result is an instance of the same type whose fields equal
\* the instance's fields.
C1_RoundTripIdentity ==
    (RoundTripped /\ io.src.t = "inst" /\ BuiltFromParameters(io.src.addr))
        => /\ Decoded(heap[io.src.addr].cls)
           /\ DeepEq(io.src, heap, io.v, io.w.heap)

C1_Witness ==
    /\ RoundTripped
    /\ io.src.t = "inst"
    /\ heap[io.src.addr].cls = ExampleJSONSerializable
    /\ Get(heap[io.src.addr].dict, "string") = Str("Hello")
    /\ BuiltFromParameters(io.src.addr)
    /\ Decoded(ExampleJSONSerializable)
    /\ Get(io.w.heap[io.v.addr].dict, "string") = Str("Hello")

\* C2: enum singleton identity.  Decoding the encoding of an enumeration
\* member returns that very member, when the member was encoded on its own and
\* when the hook meets its encoding as a field of an encoded instance.
C2_EnumSingletonIdentity ==
    /\ (RoundTripped /\ io.src.t = "enum") => (io.err = NoError /\ io.v = io.src)
    /\ \A e \in LogEntries : \A m \in DOMAIN members :
          DeepEq(Dict(e.o), heap, JSONEnum_to_dict(W, m), heap)
              => (e.err = NoError /\ e.v = m)

C2_Witness ==
    /\ RoundTripped
    /\ io.src.t = "inst"
    /\ io.err = NoError
    /\ \E e \in LogEntries :
          /\ e.v = Member(ExampleEnum, "TWO")
          /\ Len(e.path) = 1
    /\ \E e \in LogEntries : e.v = Member(NamedEnum, "TWO")

\* C3 as claimed: decoding a payload that contains a mapping whose reserved
\* key holds an identifier that was never registered raises UnknownTypeError
\* and returns no value.
C3_UnknownTagRaisesUnknownTypeError ==
    (io.op = "loads" /\ NeverRegistered # {})
        => /\ io.v = NoValue
           /\ \E identifier \in NeverRegistered : io.err = UnknownTypeError(identifier)

\* C3 amended: decoding such a payload returns no value and raises; the error
\* is the one of the last mapping the hook was applied to, which is
\* UnknownTypeError for a never-registered identifier unless the from_dict of
\* a mapping that closes earlier in the text has failed before.
C3_UnknownTagNeverReturns ==
    (io.op = "loads" /\ NeverRegistered # {})
        => /\ io.v = NoValue
           /\ io.err # NoError
           /\ Len(io.log) > 0
           /\ LET last == io.log[Len(io.log)]
              IN  /\ io.err = last.err
                  /\ \A i \in 1..(Len(io.log) - 1) : io.log[i].err = NoError
                  /\ IF last.called
                     THEN io.err.site \in {"member", "obj"}
                     ELSE /\ IsTagged(last.o)
                          /\ Get(last.o, ReservedKey).s \in NeverRegistered
                          /\ io.err = UnknownTypeError(Get(last.o, ReservedKey).s)

C3_Witness ==
    /\ io.op = "loads"
    /\ io.payload = PayloadNestedUnknownTag
    /\ NeverRegistered = {UnknownIdentifier}
    /\ io.v = NoValue
    /\ io.err = UnknownTypeError(UnknownIdentifier)

\* C4: registry entries are stable.  No step removes an identifier from the
\* registry or maps it to another class, also when a class with an identifier
\* that is already present is registered.
C4_RegistryStable ==
    [][\A k \in DOMAIN type_map : k \in DOMAIN type_map' /\ type_map'[k] = type_map[k]]_vars

C4_Witness ==
    /\ io.op = "register"
    /\ io.cls = RedefinedExampleJSONSerializable
    /\ fqcn(io.cls) \in DOMAIN io.before
    /\ type_map[fqcn(io.cls)] = ExampleJSONSerializable

\* a tagged object whose fields left and right are two other tagged objects
HoldsTwoTagged(a) ==
    /\ CarriesOwnTag(heap, a)
    /\ \A f \in {"left", "right"} :
          /\ HasKey(heap[a].dict, f)
          /\ Get(heap[a].dict, f).t = "inst"
          /\ CarriesOwnTag(heap, Get(heap[a].dict, f).addr)

\* C5 as claimed: an object that holds two tagged objects as fields round-trips
\* to an object of its type whose nested fields have the type and the fields
\* of the nested objects of the original.

C5_NestedRoundTrip ==
    (RoundTripped /\ io.src.t = "inst" /\ HoldsTwoTagged(io.src.addr))
        => /\ Decoded(heap[io.src.addr].cls)
           /\ \A f \in {"left", "right"} :
                 /\ HasKey(io.w.heap[io.v.addr].dict, f)
                 /\ DeepEq(Get(heap[io.src.addr].dict, f), heap,
                           Get(io.w.heap[io.v.addr].dict, f), io.w.heap)

\* C5 amended: such an object, its own tag and those of the two nested objects
\* intact, round-trips to an object of its type whose nested fields are the
\* objects its constructor assigns; the hook has
\* reconstructed each nested object to its type before, and a nested field of
\* the result equals the original's when the original's nested object still
\* has the state its constructor gave it.
C5_NestedRoundTripOfConstructorState ==
    (RoundTripped /\ io.src.t = "inst" /\ HoldsTwoTagged(io.src.addr))
        => /\ Decoded(heap[io.src.addr].cls)
           /\ LET fresh == Construct(W, heap[io.src.addr].cls, <<>>)
                  x == heap[io.src.addr].dict
                  y == io.w.heap[io.v.addr].dict
              IN  \A f \in {"left", "right"} :
                    /\ HasKey(y, f)
                    /\ DeepEq(Get(fresh.w.heap[fresh.v.addr].dict, f), fresh.w.heap,
                              Get(y, f), io.w.heap)
                    /\ DeepEq(Get(fresh.w.heap[fresh.v.addr].dict, f), fresh.w.heap,
                              Get(x, f), heap)
                         => DeepEq(Get(x, f), heap, Get(y, f), io.w.heap)
                    /\ \E e \in LogEntries :
                          /\ \E i \in 1..Len(x) : x[i][1] = f /\ e.path = <<i>>
                          /\ e.err = NoError
                          /\ e.v.t = "inst"
                          /\ io.w.heap[e.v.addr].cls = heap[Get(x, f).addr].cls
                          /\ BuiltFromParameters(Get(x, f).addr)
                               => DeepEq(Get(x, f), heap, e.v, io.w.heap)

C5_Witness ==
    /\ RoundTripped
    /\ io.src.t = "inst"
    /\ HoldsTwoTagged(io.src.addr)
    /\ Decoded(ExampleMemberObjectJSONSerializable)
    /\ DeepEq(io.src, heap, io.v, io.w.heap)
    /\ Get(io.w.heap[io.v.addr].dict, "left") # Get(io.w.heap[io.v.addr].dict, "right")

\* C6 as claimed: the mapping to_dict returns for an instance is a copy;
\* changing it leaves the instance's fields as they were when it was returned,
\* and another call returns a mapping that the change does not show in.
C6_ToDictReturnsCopy ==
    (io.op = "to_dict" /\ io.o.t = "inst")
        => /\ heap[io.o.addr].dict = io.returned
           /\ PairsOf(W, to_dict(W, io.o)) = io.returned

\* C6 amended: to_dict returns the instance's own field mapping, not a copy;
\* it holds every field the instance has, the reserved key among them as long
\* as the client has not removed it; every change made to the returned mapping
\* is a change of the instance's fields, and another call returns the same
\* mapping.
C6_ToDictReturnsOwnFields ==
    (io.op = "to_dict" /\ io.o.t = "inst")
        => /\ nmut = 0 => HasKey(io.returned, ReservedKey)
           /\ ~io.changed => io.returned = heap[io.o.addr].dict
           /\ PairsOf(W, io.ret) = heap[io.o.addr].dict
           /\ to_dict(W, io.o) = io.ret

C6_Witness ==
    /\ io.op = "to_dict"
    /\ io.o.t = "inst"
    /\ io.changed
    /\ heap[io.o.addr].dict # io.returned
    /\ PairsOf(W, io.ret) = heap[io.o.addr].dict

\* C7 as claimed: in every reachable state every instance and every declared
\* enumeration member carries the identifier of its own type under the
\* reserved key, the registry has an entry for that identifier, and so has it
\* for the tag of every encoded value.
C7_ConstructionRegisters ==
    /\ \A a \in 1..Len(heap) : CarriesOwnTag(heap, a)
    /\ \A m \in DOMAIN members :
          /\ members[m].cls_type = fqcn(m.cls)
          /\ fqcn(m.cls) \in DOMAIN type_map
    /\ io.op = "loads" => \A a \in 1..Len(io.w.heap) : CarriesOwnTag(io.w.heap, a)
    /\ io.op = "dumps" => IdentifiersIn(io.text) \subseteq DOMAIN type_map

\* C7 amended: when a constructor returns, the instances it has built carry
\* the identifier of their own type under the reserved key; the registry has
\* an entry for the identifier of every instance and of every enumeration
\* member, and every member carries its identifier, in every state.  An
\* instance loses its tag only by a change the client makes to the mapping
\* to_dict returned for it: each such change untags at most one instance.  The
\* instances a decode builds carry their tags, and the text encoded from
\* instances whose tags are intact carries only registered identifiers.
C7_ConstructionRegistersUntilChanged ==
    /\ \A a \in 1..Len(heap) : fqcn(heap[a].cls) \in DOMAIN type_map
    /\ io.op = "construct"
          => \A a \in io.v.addr..Len(heap) : CarriesOwnTag(heap, a)
    /\ Cardinality({a \in 1..Len(heap) : ~CarriesOwnTag(heap, a)}) <= nmut
    /\ \A m \in DOMAIN members :
          /\ members[m].cls_type = fqcn(m.cls)
          /\ fqcn(m.cls) \in DOMAIN type_map
    /\ io.op = "loads"
          => \A a \in (Len(heap) + 1)..Len(io.w.heap) : CarriesOwnTag(io.w.heap, a)
    /\ (io.op = "dumps" /\ \A a \in 1..Len(heap) : CarriesOwnTag(heap, a))
          => IdentifiersIn(io.text) \subseteq DOMAIN type_map

C7_Witness ==
    /\ Imported
    /\ io.op = "construct"
    /\ io.cls = ExampleMemberObjectJSONSerializable
    /\ Len(heap) = 3
    /\ \A a \in 1..3 : CarriesOwnTag(heap, a)
    /\ fqcn(ExampleJSONSerializable) \in DOMAIN type_map

\* C8 as claimed: the hook returns the raw mapping exactly when the reserved
\* key is absent; when the key is present, whatever its value, it returns the
\* result of from_dict or fails with UnknownTypeError.
C8_RawExactlyWhenKeyAbsent ==
    \A e \in LogEntries :
        IF ~HasKey(e.o, ReservedKey)
        THEN e.err = NoError /\ e.v = Dict(e.o)
        ELSE /\ e.v # Dict(e.o)
             /\ \/ e.called
                \/ IsUnknownTypeError(e.err)

\* C8 amended: the hook returns the raw mapping unchanged exactly when the
\* reserved key is absent or holds a value that is not a string; when it holds
\* a string the hook never returns the raw mapping: it fails with
\* UnknownTypeError when the string is not registered, and otherwise returns
\* what the registered type's from_dict returns or fails as that from_dict fails.
C8_RawExactlyWhenNoStringTag ==
    \A e \in LogEntries :
        IF ~IsTagged(e.o)
        THEN e.err = NoError /\ e.v = Dict(e.o)
        ELSE /\ e.v # Dict(e.o)
             /\ IF Get(e.o, ReservedKey).s \in e.registered
                THEN /\ e.called
                     /\ IF e.err = NoError
                        THEN \/ /\ e.v.t = "inst"
                                /\ io.w.heap[e.v.addr].cls
                                      = io.w.type_map[Get(e.o, ReservedKey).s]
                             \/ /\ e.v.t = "enum"
                                /\ e.v.cls = io.w.type_map[Get(e.o, ReservedKey).s]
                        ELSE e.v = NoValue /\ e.err.site \in {"member", "obj"}
                ELSE /\ e.v = NoValue
                     /\ e.err = UnknownTypeError(Get(e.o, ReservedKey).s)

C8_Witness ==
    /\ io.op = "loads"
    /\ io.err = NoError
    /\ \E e \in LogEntries :
          /\ HasKey(e.o, ReservedKey)
          /\ Get(e.o, ReservedKey) = Num(5)
          /\ e.v = Dict(e.o)
    /\ \E e \in LogEntries : e.called /\ e.v.t = "inst"

\* C9: the default from_dict passes on only the entries whose keys are
\* constructor parameters.  Whenever the hook calls the from_dict of a data
\* type, the call does not fail, each parameter present in the mapping has the
\* mapping's value in the new instance, and every other field has the value
\* the constructor assigns, whatever the mapping holds; so a round trip that
\* yields equal fields started from fields that had their constructor-assigned
\* values.
C9_FromDictPassesParametersOnly ==
    /\ \A e \in LogEntries :
          (e.called /\ ~IsEnumClass(io.w.type_map[Get(e.o, ReservedKey).s]))
              => /\ e.err = NoError
                 /\ e.v.t = "inst"
                 /\ LET cls == io.w.type_map[Get(e.o, ReservedKey).s]
                        d == io.w.heap[e.v.addr].dict
                        fresh == Construct(W, cls, <<>>)
                        c == fresh.w.heap[fresh.v.addr].dict
                    IN  /\ Keys(d) = Keys(c)
                        /\ \A f \in Keys(d) :
                              IF f \in Parameters(cls) /\ HasKey(e.o, f)
                              THEN DeepEq(Get(d, f), io.w.heap, Get(e.o, f), io.w.heap)
                              ELSE DeepEq(Get(d, f), io.w.heap, Get(c, f), fresh.w.heap)
    /\ (RoundTripped /\ io.src.t = "inst" /\ io.err = NoError /\ io.v.t = "inst"
          /\ DeepEq(io.src, heap, io.v, io.w.heap))
          => LET fresh == Construct(W, heap[io.src.addr].cls, <<>>)
                 c == fresh.w.heap[fresh.v.addr].dict
                 x == heap[io.src.addr].dict
             IN  \A f \in Keys(x) \ Parameters(heap[io.src.addr].cls) :
                    HasKey(c, f) /\ DeepEq(Get(x, f), heap, Get(c, f), fresh.w.heap)

C9_Witness ==
    /\ RoundTripped
    /\ io.src.t = "inst"
    /\ heap[io.src.addr].cls = ExampleSubclassJSONSerializable
    /\ Get(heap[io.src.addr].dict, "child") = Str("zap")
    /\ Decoded(ExampleSubclassJSONSerializable)
    /\ Get(io.w.heap[io.v.addr].dict, "child") = Str("child")
    /\ \E e \in LogEntries :
          e.called /\ HasKey(e.o, "child") /\ Get(e.o, "child") = Str("zap")

\* C10: decode is bottom-up.  The hook is applied to every mapping of the
\* payload, to a nested mapping before the mapping that contains it, and no
\* mapping passed to a from_dict holds a mapping that still carries a type
\* identifier.
C10_DecodeBottomUp ==
    io.op = "loads"
        => /\ \A i, n \in 1..Len(io.log) :
                 IsProperPrefix(io.log[i].path, io.log[n].path) => n < i
           /\ {e.path : e \in LogEntries} \subseteq ObjectPaths(io.payload, <<>>)
           /\ io.err = NoError
                 => /\ {e.path : e \in LogEntries} = ObjectPaths(io.payload, <<>>)
                    /\ Len(io.log) = Cardinality(ObjectPaths(io.payload, <<>>))
           /\ \A e \in LogEntries :
                 e.called => \A i \in 1..Len(e.o) : ~HoldsRawTagged(e.o[i][2])

C10_Witness ==
    /\ RoundTripped
    /\ io.err = NoError
    /\ Len(io.log) = 5
    /\ io.log[5].path = <<>>
    /\ io.log[5].called
    /\ HasKey(io.log[5].o, "left") /\ HasKey(io.log[5].o, "right")
    /\ io.log[2].called /\ io.log[2].v.t = "inst"
    /\ Get(io.log[5].o, "left") = io.log[2].v
    /\ io.log[4].called /\ io.log[4].v.t = "inst"
    /\ Get(io.log[5].o, "right") = io.log[4].v
    /\ IsProperPrefix(io.log[2].path, io.log[1].path)

====
